---------------------------- MODULE Spec2Model ----------------------------
(***************************************************************************)
(* Teacher portal: login screen, dashboard of batches, exam creation form. *)
(* One action is one browser task: a UI event handler or the continuation  *)
(* of an awaited request, run to its next await (promise continuations run *)
(* as microtasks before the next UI event is dispatched).                  *)
(***************************************************************************)
EXTENDS Integers, Sequences, FiniteSets, Bags, TLC

\* ------------------------------------------------------------------ bounds
MaxNow == 1          \* the clock runs 0..MaxNow
MaxQuestions == 2    \* 'Add Question' is capped at this many rows
MaxInFlight == 2     \* user actions issue no request beyond this many in flight

\* ------------------------------------------------------- program constants
MinPasswordLen == 6
MinTitleLen == 3
MinDuration == 5
MaxFileSize == 5000000
OptionCount == 4
MaxCorrectIndex == 3
DefaultDuration == 60

NULL == "null"
NoAlert == "none"
AccessDenied == "Access Denied: Student accounts cannot access the dashboard."
InvalidCredentials == "Invalid Credentials"
ExamCreated == "Exam Created Successfully!"
ExamFailed == "Failed to create exam. Please check your connection."
\* console output
NoLog == "none"
FetchFailedLog == "Failed to fetch batches"
ErrorLog == "error"              \* console.error of the caught error object
UncaughtLog == "Uncaught (in promise)"

\* ------------------------------------------------------- input domains
Paths == {"/login", "/dashboard", "/create-exam", "/other"}
Roles == {"TEACHER", "STUDENT"}
Tokens == {"t1"}
Urls == {"u1"}
\* an address is a sequence of characters
EmailInputs == { <<>>, <<"a", "@", "a">>, <<"a", "@", "a", ".", "a", "a">> }
PasswordInputs == {"abcde", "abcdef"}
TitleInputs == {"abc"}
InvalidDate == -1    \* the time value of new Date('') (NaN)
\* the field is cleared, or set to the last instant of the clock
StartTimeInputs == {InvalidDate, MaxNow}
SmallFile == [size |-> 1]
BigFile == [size |-> 5000001]
FileInputs == { <<>>, <<SmallFile>>, <<BigFile>> }
DurationInputs == {4, 60}

VARIABLES
  app,        \* which of the two App route tables is built
  now,        \* the clock read by new Date()
  token,      \* auth store: bearer token or NULL
  user,       \* auth store: the user (represented by its role) or NULL
  route,      \* the location displayed after redirects
  alert,      \* the modal alert shown by the last handler, or NoAlert
  console,    \* what the last handler wrote to the console, or NoLog
  server,     \* backend: batches created, files stored
  login,      \* state of the mounted Login component
  dash,       \* state of the mounted Dashboard component
  exam,       \* state of the mounted CreateExam component
  inflight    \* bag of requests awaiting their response

vars == <<app, now, token, user, route, alert, console, server, login, dash,
         exam, inflight>>


\* ------------------------------------------------------------ auth store
\* login(token, user) of the auth store
StoreLogin(tok, usr) == [token |-> tok, user |-> usr]

\* logout() of the auth store
StoreLogout == [token |-> NULL, user |-> NULL]

\* ------------------------------------------------------------ route table
AppVariants == {"dashboard-only", "with-create-exam"}

ProtectedRouteNoGuard(tok, children) == children

\* token ? children : <Navigate to="/login" replace />
ProtectedRoute(tok, children) ==
  IF tok # NULL THEN children ELSE "/login"

RoutesDashboardUnguarded(p, tok) ==
  IF p = "/login" THEN "/login"
  ELSE IF p = "/create-exam" /\ app = "with-create-exam"
       THEN ProtectedRoute(tok, "/create-exam")
  ELSE "/dashboard"

\* <Routes>: the screen displayed for path p once every <Navigate> has run
Routes(p, tok) ==
  IF p = "/login" THEN "/login"
  ELSE IF p = "/dashboard" THEN ProtectedRoute(tok, "/dashboard")
  ELSE IF p = "/create-exam" /\ app = "with-create-exam"
       THEN ProtectedRoute(tok, "/create-exam")
  ELSE ProtectedRoute(tok, "/dashboard")     \* path="*" -> /dashboard

ProtectedScreens == {"/dashboard", "/create-exam"}

\* ------------------------------------------------------------ validation
Max(S) == CHOOSE m \in S : \A x \in S : x <= m

\* z.string().email(): one "@", a local part that neither starts nor ends
\* with ".", no "..", and a dotted domain whose last label has 2+ characters
IsEmail(e) ==
  LET n == Len(e)
      ats == {i \in 1..n : e[i] = "@"}
      dots == {i \in 1..n : e[i] = "."}
  IN  /\ Cardinality(ats) = 1
      /\ LET k == CHOOSE i \in ats : TRUE
             domDots == {i \in dots : i > k}
         IN  /\ k > 1
             /\ e[1] # "."
             /\ (k - 1) \notin dots
             /\ (k + 1) \notin dots
             /\ \A i \in dots : (i + 1) \notin dots
             /\ domDots # {}
             /\ n - Max(domDots) >= 2

PasswordOKOffByOne(p) == Len(p) >= MinPasswordLen - 1

PasswordOK(p) == Len(p) >= MinPasswordLen

\* the names of the fields loginSchema rejects
loginSchema(v) ==
  {f \in {"email"} : ~IsEmail(v.email)}
    \cup {f \in {"password"} : ~PasswordOK(v.password)}

defaultQuestion ==
  [text |-> "", options |-> <<"", "", "", "">>, correctIndex |-> 0, marks |-> 1]

FilledQuestion ==
  [text |-> "q", options |-> <<"a", "b", "c", "d">>, correctIndex |-> 2, marks |-> 1]

ThreeOptionQuestion ==
  [text |-> "q", options |-> <<"a", "b", "c", "">>, correctIndex |-> 0, marks |-> 1]

QuestionInputs == {FilledQuestion, ThreeOptionQuestion}

StartTimeOKNotStrict(startTime, t) == startTime # InvalidDate /\ startTime >= t

\* new Date(val) > new Date()
StartTimeOK(startTime, t) == startTime # InvalidDate /\ startTime > t

\* z.array(z.string().min(1)).length(4)
OptionsOK(options) ==
  /\ Len(options) = OptionCount
  /\ \A i \in 1..Len(options) : Len(options[i]) >= 1

\* one element of examSchema.questions
QuestionOK(q) ==
  /\ Len(q.text) >= 1
  /\ OptionsOK(q.options)
  /\ q.correctIndex >= 0 /\ q.correctIndex <= MaxCorrectIndex
  /\ q.marks >= 1

\* the rows of the question list examSchema rejects
QuestionErrors(questions) ==
  {i \in 1..Len(questions) : ~QuestionOK(questions[i])}

\* the names of the fields examSchema rejects at time t
examSchema(v, t) ==
  {f \in {"title"} : Len(v.title) < MinTitleLen}
    \cup {f \in {"batchId"} : Len(v.batchId) < 1}
    \cup {f \in {"startTime"} : ~StartTimeOK(v.startTime, t)}
    \cup {f \in {"duration"} : v.duration < MinDuration}
    \cup {f \in {"pdfFile"} :
            Len(v.pdfFile) > 0 /\ v.pdfFile[1].size > MaxFileSize}
    \cup {f \in {"questions"} :
            Len(v.questions) < 1 \/ QuestionErrors(v.questions) # {}}

\* ------------------------------------------------------- component state
LoginInit ==
  [email |-> <<>>, password |-> "", isSubmitting |-> FALSE,
   isSubmitted |-> FALSE, errors |-> {}]

DashboardInit == [batches |-> {}]

defaultValues ==
  [title |-> "", batchId |-> "", startTime |-> InvalidDate,
   duration |-> DefaultDuration, pdfFile |-> <<>>,
   questions |-> <<defaultQuestion>>]

CreateExamInit ==
  [batches |-> {}, isSubmitting |-> FALSE, values |-> defaultValues,
   isSubmitted |-> FALSE, errors |-> {}]

\* formState.errors after the field `name` changed (reValidateMode onChange:
\* once the form has been submitted, a change re-runs the resolver for it)
Revalidate(form, name, rejected) ==
  IF ~form.isSubmitted THEN form.errors
  ELSE IF name \in rejected THEN form.errors \cup {name}
  ELSE form.errors \ {name}

\* ---------------------------------------------------------------- requests
\* a request awaiting its response, with what its continuation holds: whether
\* its component is still mounted, the validated form data, resourcePdfUrl
Request(kind, live, data, url) ==
  [kind |-> kind, live |-> live, data |-> data, url |-> url]

One(r) == SetToBag({r})

InFlight(kinds) ==
  {r \in BagToSet(inflight) : r.kind \in kinds}

\* the requests whose component has been unmounted: their continuations
\* still run, their state setters do nothing. A GET /batches left behind has
\* nothing else to do (it sets state or writes to the console) and is dropped.
Orphan(reqs) ==
  LET dead(r) == [r EXCEPT !.live = FALSE]
      D == {dead(r) : r \in {x \in BagToSet(reqs) : x.kind # "getBatches"}}
  IN  [d \in D |-> CopiesIn(d, reqs) + CopiesIn([d EXCEPT !.live = TRUE], reqs)]

\* api.get('/batches') from the mounted screen
GetBatches == One(Request("getBatches", TRUE, defaultValues, ""))

\* the useEffect(..., []) of the screen being mounted
MountRequests(screen) ==
  IF screen \in {"/dashboard", "/create-exam"} THEN GetBatches ELSE EmptyBag

\* how many requests of these kinds the mounted component has in flight
LiveCount(kinds) ==
  LET S == {r \in InFlight(kinds) : r.live}
  IN  BagCardinality([r \in S |-> CopiesIn(r, inflight)])

\* how many requests of these kinds are in flight
Count(reqs, kinds) ==
  LET S == {r \in BagToSet(reqs) : r.kind \in kinds}
  IN  BagCardinality([r \in S |-> CopiesIn(r, reqs)])

\* the body of POST /exams
ExamBody(r) ==
  [title |-> r.data.title, batchId |-> r.data.batchId,
   durationMinutes |-> r.data.duration, startTime |-> r.data.startTime,
   resourcePdfUrl |-> r.url, questions |-> r.data.questions]

\* ------------------------------------------------------------- navigation
\* a screen is mounted afresh: component state is initial, the requests of
\* the screen that was showing are orphaned, the mount effect runs
Mount(screen, reqs) ==
  /\ route' = screen
  /\ login' = LoginInit
  /\ dash' = DashboardInit
  /\ exam' = CreateExamInit
  /\ inflight' = Orphan(reqs) (+) MountRequests(screen)

\* navigate(to) with the store holding tok: the same location re-renders in
\* place, any other goes through <Routes> and mounts the screen it resolves to
Navigate(to, tok, reqs) ==
  IF to = route /\ Routes(to, tok) = route
  THEN /\ inflight' = reqs
       /\ UNCHANGED <<route, login, dash, exam>>
  ELSE Mount(Routes(to, tok), reqs)

CanIssue == BagCardinality(inflight) < MaxInFlight

Init ==
  /\ app \in AppVariants
  /\ now = 0
  /\ token = NULL
  /\ user = NULL
  /\ route = "/login"
  /\ alert = NoAlert
  /\ console = NoLog
  /\ server = [batches |-> {}, files |-> {}]
  /\ login = LoginInit
  /\ dash = DashboardInit
  /\ exam = CreateExamInit
  /\ inflight = EmptyBag

\* ------------------------------------------------------------ environment
Tick ==
  /\ now < MaxNow
  /\ now' = now + 1
  /\ alert' = NoAlert
  /\ console' = NoLog
  /\ UNCHANGED <<app, token, user, route, server, login, dash, exam, inflight>>

\* the page is loaded at path p: pending requests die with the old page, the
\* persisted auth store survives
Visit(p) ==
  /\ route' = Routes(p, token)
  /\ login' = LoginInit
  /\ dash' = DashboardInit
  /\ exam' = CreateExamInit
  /\ inflight' = MountRequests(Routes(p, token))
  /\ alert' = NoAlert
  /\ console' = NoLog
  /\ UNCHANGED <<app, now, token, user, server>>

\* ------------------------------------------------------------------ Login
TypeEmail(e) ==
  /\ route = "/login"
  /\ login' = [login EXCEPT
                 !.email = e,
                 !.errors = Revalidate(login, "email",
                              loginSchema([login EXCEPT !.email = e]))]
  /\ alert' = NoAlert
  /\ console' = NoLog
  /\ UNCHANGED <<app, now, token, user, route, server, dash, exam, inflight>>

TypePassword(p) ==
  /\ route = "/login"
  /\ login' = [login EXCEPT
                 !.password = p,
                 !.errors = Revalidate(login, "password",
                              loginSchema([login EXCEPT !.password = p]))]
  /\ alert' = NoAlert
  /\ console' = NoLog
  /\ UNCHANGED <<app, now, token, user, route, server, dash, exam, inflight>>

\* handleSubmit(onSubmit) with loginSchema rejecting the values
LoginSubmitInvalid ==
  /\ route = "/login"
  /\ ~login.isSubmitting
  /\ loginSchema(login) # {}
  /\ login' = [login EXCEPT !.isSubmitted = TRUE, !.errors = loginSchema(login)]
  /\ alert' = NoAlert
  /\ console' = NoLog
  /\ UNCHANGED <<app, now, token, user, route, server, dash, exam, inflight>>

\* handleSubmit(onSubmit) with valid values: onSubmit runs to its await
LoginSubmit ==
  /\ route = "/login"
  /\ ~login.isSubmitting
  /\ loginSchema(login) = {}
  /\ CanIssue
  /\ login' = [login EXCEPT !.isSubmitted = TRUE, !.errors = {},
                            !.isSubmitting = TRUE]
  /\ inflight' = inflight (+) One(Request("login", TRUE, defaultValues, ""))
  /\ alert' = NoAlert
  /\ console' = NoLog
  /\ UNCHANGED <<app, now, token, user, route, server, dash, exam>>

\* onSubmit ends without navigating: formState.isSubmitting goes back to false
LoginSettled(r) ==
  /\ inflight' = inflight (-) One(r)
  /\ login' = IF r.live THEN [login EXCEPT !.isSubmitting = FALSE] ELSE login
  /\ UNCHANGED <<app, now, token, user, route, server, dash, exam>>

\* POST /auth/login rejected: the catch branch
LoginFailed(r) ==
  /\ r.kind = "login"
  /\ alert' = InvalidCredentials
  /\ console' = NoLog
  /\ LoginSettled(r)

RoleAllowedAny(role) == TRUE

\* res.data.user.role !== 'TEACHER' is the refusal
RoleAllowed(role) == role = "TEACHER"

\* POST /auth/login answered with a user the role check refuses
LoginDenied(r, role) ==
  /\ r.kind = "login"
  /\ ~RoleAllowed(role)
  /\ alert' = AccessDenied
  /\ console' = NoLog
  /\ LoginSettled(r)

\* POST /auth/login answered with an allowed user: login(...); navigate(...)
LoginSucceeded(r, role, tok) ==
  /\ r.kind = "login"
  /\ RoleAllowed(role)
  /\ token' = StoreLogin(tok, role).token
  /\ user' = StoreLogin(tok, role).user
  /\ Navigate("/dashboard", token', inflight (-) One(r))
  /\ alert' = NoAlert
  /\ console' = NoLog
  /\ UNCHANGED <<app, now, server>>

\* -------------------------------------------------------------- Dashboard
\* fetchBatches resolved: setBatches(res.data) on the mounted Dashboard
FetchBatchesDone(r) ==
  /\ r.kind = "getBatches" /\ r.live /\ route = "/dashboard"
  /\ dash' = [dash EXCEPT !.batches = server.batches]
  /\ inflight' = inflight (-) One(r)
  /\ alert' = NoAlert
  /\ console' = NoLog
  /\ UNCHANGED <<app, now, token, user, route, server, login, exam>>

AlertOnFailure(r) == "Failed to fetch batches"

\* what the user is shown when GET /batches or POST /batches fails: the
\* catch of fetchBatches and the .catch of the CreateExam effect only write
\* to the console, createBatch has no catch at all
BatchesFailureAlert(r) == NoAlert

\* the Dashboard logs a fixed message, CreateExam logs the error
BatchesFailureLog == IF route = "/dashboard" THEN FetchFailedLog ELSE ErrorLog

\* GET /batches rejected, on either screen: no state is set
GetBatchesFailed(r) ==
  /\ r.kind = "getBatches"
  /\ inflight' = inflight (-) One(r)
  /\ alert' = BatchesFailureAlert(r)
  /\ console' = BatchesFailureLog
  /\ UNCHANGED <<app, now, token, user, route, server, login, dash, exam>>

PromptInputs == {"", "2026 Revision"}

\* the batch the backend creates for POST /batches
NewBatch == "b1"

\* createBatch: prompt, return on an empty answer, else POST /batches
CreateBatch(name) ==
  /\ route = "/dashboard"
  /\ IF name = ""
     THEN UNCHANGED inflight
     ELSE /\ CanIssue
          /\ inflight' = inflight (+) One(Request("postBatches", TRUE, defaultValues, ""))
  /\ alert' = NoAlert
  /\ console' = NoLog
  /\ UNCHANGED <<app, now, token, user, route, server, login, dash, exam>>

\* POST /batches resolved: createBatch goes on to fetchBatches()
CreateBatchDone(r) ==
  /\ r.kind = "postBatches"
  /\ server' = [server EXCEPT !.batches = @ \cup {NewBatch}]
  /\ inflight' = (inflight (-) One(r))
                   (+) (IF r.live THEN GetBatches ELSE EmptyBag)
  /\ alert' = NoAlert
  /\ console' = NoLog
  /\ UNCHANGED <<app, now, token, user, route, login, dash, exam>>

\* POST /batches rejected: the await throws out of createBatch
CreateBatchFailed(r) ==
  /\ r.kind = "postBatches"
  /\ inflight' = inflight (-) One(r)
  /\ alert' = BatchesFailureAlert(r)
  /\ console' = UncaughtLog
  /\ UNCHANGED <<app, now, token, user, route, server, login, dash, exam>>

\* the logout button: the store is cleared and the guard renders again
Logout ==
  /\ route = "/dashboard"
  /\ token' = StoreLogout.token
  /\ user' = StoreLogout.user
  /\ Navigate(route, token', inflight)
  /\ alert' = NoAlert
  /\ console' = NoLog
  /\ UNCHANGED <<app, now, server>>

\* the New Exam button: navigate('/create-exam')
NewExam ==
  /\ route = "/dashboard"
  /\ CanIssue
  /\ Navigate("/create-exam", token, inflight)
  /\ alert' = NoAlert
  /\ console' = NoLog
  /\ UNCHANGED <<app, now, token, user, server>>

\* ------------------------------------------------------------- CreateExam
\* the batches effect resolved: setBatches(res.data)
ExamBatchesDone(r) ==
  /\ r.kind = "getBatches" /\ r.live /\ route = "/create-exam"
  /\ exam' = [exam EXCEPT !.batches = server.batches]
  /\ inflight' = inflight (-) One(r)
  /\ alert' = NoAlert
  /\ console' = NoLog
  /\ UNCHANGED <<app, now, token, user, route, server, login, dash>>

\* a registered input changes: the value is stored, its error re-validated
SetValue(name, values) ==
  /\ route = "/create-exam"
  /\ exam' = [exam EXCEPT
                !.values = values,
                !.errors = Revalidate(exam, name, examSchema(values, now))]
  /\ alert' = NoAlert
  /\ console' = NoLog
  /\ UNCHANGED <<app, now, token, user, route, server, login, dash, inflight>>

EditTitle(t) == SetValue("title", [exam.values EXCEPT !.title = t])

\* the <select>: the placeholder option or one of the loaded batches
SelectBatch(b) ==
  /\ b \in {""} \cup exam.batches
  /\ SetValue("batchId", [exam.values EXCEPT !.batchId = b])

EditStartTime(t) == SetValue("startTime", [exam.values EXCEPT !.startTime = t])

EditDuration(d) == SetValue("duration", [exam.values EXCEPT !.duration = d])

ChooseFile(f) == SetValue("pdfFile", [exam.values EXCEPT !.pdfFile = f])

EditQuestion(i, q) ==
  /\ i \in 1..Len(exam.values.questions)
  /\ SetValue("questions", [exam.values EXCEPT !.questions[i] = q])

\* Add Question: append(defaultQuestion)
AppendQuestion ==
  /\ Len(exam.values.questions) < MaxQuestions
  /\ SetValue("questions",
       [exam.values EXCEPT !.questions = Append(@, defaultQuestion)])

RemoveOfferedAlways(fields) == TRUE

\* fields.length > 1 && <button ... remove(qIndex)>
RemoveOffered(fields) == Len(fields) > 1

RemoveAt(s, i) == SubSeq(s, 1, i - 1) \o SubSeq(s, i + 1, Len(s))

RemoveQuestion(i) ==
  /\ i \in 1..Len(exam.values.questions)
  /\ RemoveOffered(exam.values.questions)
  /\ SetValue("questions",
       [exam.values EXCEPT !.questions = RemoveAt(@, i)])

SubmitOfferedAlways(e) == TRUE

\* <button type="submit" disabled={isSubmitting}>
SubmitOffered(e) == ~e.isSubmitting

\* handleSubmit(onSubmit) with examSchema rejecting the values
ExamSubmitInvalid ==
  /\ route = "/create-exam"
  /\ SubmitOffered(exam)
  /\ examSchema(exam.values, now) # {}
  /\ exam' = [exam EXCEPT !.isSubmitted = TRUE,
                          !.errors = examSchema(exam.values, now)]
  /\ alert' = NoAlert
  /\ console' = NoLog
  /\ UNCHANGED <<app, now, token, user, route, server, login, dash, inflight>>

\* onSubmit up to its first await: POST /upload when a file is attached,
\* else POST /exams with resourcePdfUrl = ''
FirstRequest(data) ==
  IF Len(data.pdfFile) > 0
  THEN Request("upload", TRUE, data, "")
  ELSE Request("exams", TRUE, data, "")

\* handleSubmit(onSubmit) with valid values
ExamSubmit ==
  /\ route = "/create-exam"
  /\ SubmitOffered(exam)
  /\ examSchema(exam.values, now) = {}
  /\ CanIssue
  /\ exam' = [exam EXCEPT !.isSubmitted = TRUE, !.errors = {},
                          !.isSubmitting = TRUE]
  /\ inflight' = inflight (+) One(FirstRequest(exam.values))
  /\ alert' = NoAlert
  /\ console' = NoLog
  /\ UNCHANGED <<app, now, token, user, route, server, login, dash>>

AfterUploadKeepsEmptyUrl(r, url) == [r EXCEPT !.kind = "exams"]

\* resourcePdfUrl = uploadRes.data.url, then POST /exams
AfterUpload(r, url) == [r EXCEPT !.kind = "exams", !.url = url]

\* POST /upload resolved with url
UploadDone(r, url) ==
  /\ r.kind = "upload"
  /\ server' = [server EXCEPT !.files = @ \cup {url}]
  /\ inflight' = (inflight (-) One(r)) (+) One(AfterUpload(r, url))
  /\ alert' = NoAlert
  /\ console' = NoLog
  /\ UNCHANGED <<app, now, token, user, route, login, dash, exam>>

AfterFailureRetry(r) == One(r)

\* the requests onSubmit issues from its catch and finally branches: none
AfterFailure(r) == EmptyBag

FinallyKeepsSubmitting(e) == e

\* finally { setIsSubmitting(false) }
Finally(e) == [e EXCEPT !.isSubmitting = FALSE]

\* catch and finally of onSubmit: the alert, then setIsSubmitting(false)
ExamSubmitFailed(r) ==
  /\ alert' = ExamFailed
  /\ console' = ErrorLog
  /\ inflight' = (inflight (-) One(r)) (+) AfterFailure(r)
  /\ exam' = IF r.live THEN Finally(exam) ELSE exam
  /\ UNCHANGED <<app, now, token, user, route, server, login, dash>>

\* POST /upload rejected
UploadFailed(r) ==
  /\ r.kind = "upload"
  /\ ExamSubmitFailed(r)

\* POST /exams rejected
ExamsFailed(r) ==
  /\ r.kind = "exams"
  /\ ExamSubmitFailed(r)

\* POST /exams resolved: alert, navigate('/dashboard'), setIsSubmitting(false)
ExamsDone(r) ==
  /\ r.kind = "exams"
  /\ alert' = ExamCreated
  /\ console' = NoLog
  /\ Navigate("/dashboard", token, inflight (-) One(r))
  /\ UNCHANGED <<app, now, token, user, server>>

\* the back arrow: navigate('/dashboard')
Back ==
  /\ route = "/create-exam"
  /\ CanIssue
  /\ Navigate("/dashboard", token, inflight)
  /\ alert' = NoAlert
  /\ console' = NoLog
  /\ UNCHANGED <<app, now, token, user, server>>

Next ==
  \/ Tick
  \/ \E p \in Paths : Visit(p)
  \/ \E e \in EmailInputs : TypeEmail(e)
  \/ \E p \in PasswordInputs : TypePassword(p)
  \/ LoginSubmitInvalid
  \/ LoginSubmit
  \/ \E r \in InFlight({"login"}) : LoginFailed(r)
  \/ \E r \in InFlight({"login"}), role \in Roles : LoginDenied(r, role)
  \/ \E r \in InFlight({"login"}), role \in Roles, tok \in Tokens :
       LoginSucceeded(r, role, tok)
  \/ \E r \in InFlight({"getBatches"}) : FetchBatchesDone(r)
  \/ \E r \in InFlight({"getBatches"}) : ExamBatchesDone(r)
  \/ \E r \in InFlight({"getBatches"}) : GetBatchesFailed(r)
  \/ \E name \in PromptInputs : CreateBatch(name)
  \/ \E r \in InFlight({"postBatches"}) : CreateBatchDone(r)
  \/ \E r \in InFlight({"postBatches"}) : CreateBatchFailed(r)
  \/ Logout
  \/ NewExam
  \/ \E t \in TitleInputs : EditTitle(t)
  \/ \E b \in {""} \cup exam.batches : SelectBatch(b)
  \/ \E t \in StartTimeInputs : EditStartTime(t)
  \/ \E d \in DurationInputs : EditDuration(d)
  \/ \E f \in FileInputs : ChooseFile(f)
  \/ \E i \in 1..MaxQuestions, q \in QuestionInputs : EditQuestion(i, q)
  \/ ExamSubmitInvalid
  \/ ExamSubmit
  \/ \E r \in InFlight({"upload"}), url \in Urls : UploadDone(r, url)
  \/ \E r \in InFlight({"upload"}) : UploadFailed(r)
  \/ \E r \in InFlight({"exams"}) : ExamsDone(r)
  \/ \E r \in InFlight({"exams"}) : ExamsFailed(r)
  \/ Back

\* The whole application. The question list keeps the one row it starts
\* with; adding and removing rows is followed in SpecForm.
Spec == Init /\ [][Next]_vars

\* --------------------------------------------------- the exam form alone
\* a teacher whose token is in the persisted store loads /create-exam, a
\* batch exists on the server
InitForm ==
  /\ app = "with-create-exam"
  /\ now = 0
  /\ token \in Tokens
  /\ user = "TEACHER"
  /\ route = "/create-exam"
  /\ alert = NoAlert
  /\ console = NoLog
  /\ server = [batches |-> {NewBatch}, files |-> {}]
  /\ login = LoginInit
  /\ dash = DashboardInit
  /\ exam = CreateExamInit
  /\ inflight = MountRequests("/create-exam")

NextForm ==
  \/ Tick
  \/ \E r \in InFlight({"getBatches"}) : ExamBatchesDone(r)
  \/ \E r \in InFlight({"getBatches"}) : GetBatchesFailed(r)
  \/ \E t \in TitleInputs : EditTitle(t)
  \/ \E b \in {""} \cup exam.batches : SelectBatch(b)
  \/ \E t \in StartTimeInputs : EditStartTime(t)
  \/ \E d \in DurationInputs : EditDuration(d)
  \/ \E f \in FileInputs : ChooseFile(f)
  \/ \E i \in 1..MaxQuestions, q \in QuestionInputs : EditQuestion(i, q)
  \/ AppendQuestion
  \/ \E i \in 1..MaxQuestions : RemoveQuestion(i)
  \/ ExamSubmitInvalid
  \/ ExamSubmit
  \/ \E r \in InFlight({"upload"}), url \in Urls : UploadDone(r, url)
  \/ \E r \in InFlight({"upload"}) : UploadFailed(r)
  \/ \E r \in InFlight({"exams"}) : ExamsDone(r)
  \/ \E r \in InFlight({"exams"}) : ExamsFailed(r)

SpecForm == InitForm /\ [][NextForm]_vars

\* every request that was issued is answered: POST /upload resolves or rejects
UploadSettles ==
  \E r \in InFlight({"upload"}) :
    (\E url \in Urls : UploadDone(r, url)) \/ UploadFailed(r)

\* POST /exams resolves or rejects
ExamsSettles ==
  \E r \in InFlight({"exams"}) : ExamsDone(r) \/ ExamsFailed(r)

\* the exam form alone, with every issued request of a submission answered
FairSpecForm ==
  SpecForm /\ WF_vars(UploadSettles) /\ WF_vars(ExamsSettles)


\* ----------------------------------------------------------------- claims
Submission == {"upload", "exams"}

\* C1: a protected screen (dashboard, exam creation) is displayed only while
\* the auth store holds a token, and loading a protected path with no token
\* ends on /login.
RouteGuard ==
  /\ [](route \in ProtectedScreens => token # NULL)
  /\ [][\A p \in {"/dashboard", "/create-exam"} :
          (token = NULL /\ Visit(p)) => route' = "/login"]_vars

ProtectedScreenShown ==
  route = "/create-exam" /\ token # NULL /\ exam.batches # {}

\* C2: the store is written and /dashboard entered only by a successful login
\* whose user is a teacher; a failed login or any other role leaves token,
\* user and the displayed screen as they were.
LoginOnlyForTeacher ==
  [][/\ ((token' # token \/ user' # user) /\ token' # NULL) =>
          /\ user' = "TEACHER"
          /\ route' = "/dashboard"
          /\ Count(inflight', {"login"}) = Count(inflight, {"login"}) - 1
     /\ \A r \in InFlight({"login"}), tok \in Tokens :
          LoginSucceeded(r, "TEACHER", tok) =>
            token' = tok /\ user' = "TEACHER" /\ route' = "/dashboard"
     /\ \A r \in InFlight({"login"}) :
          (LoginFailed(r) \/ \E role \in Roles \ {"TEACHER"} : LoginDenied(r, role))
            => UNCHANGED <<token, user, route>>]_vars

StudentRefused ==
  alert = AccessDenied /\ token = NULL /\ user = NULL /\ route = "/login"

NonEmptyOptions(q) ==
  Cardinality({i \in 1..Len(q.options) : q.options[i] # ""})

ExamInputInvalid ==
  \/ exam.values.startTime = InvalidDate
  \/ exam.values.startTime <= now
  \/ Len(exam.values.questions) = 0
  \/ \E i \in 1..Len(exam.values.questions) :
       NonEmptyOptions(exam.values.questions[i]) < 4

\* C3: a submit of the exam form whose start time is not strictly in the
\* future, or with a question of fewer than 4 non-empty options, or with no
\* question, issues no request; every POST /exams in flight carries at least
\* one question and four options per question.
ExamRejectsInvalid ==
  /\ [](\A r \in InFlight({"exams"}) :
          /\ Len(ExamBody(r).questions) >= 1
          /\ \A i \in 1..Len(ExamBody(r).questions) :
               Len(ExamBody(r).questions[i].options) = 4)
  /\ [][((ExamSubmit \/ ExamSubmitInvalid) /\ ExamInputInvalid)
          => UNCHANGED inflight]_vars

StartTimeNowRejected ==
  /\ exam.errors = {"startTime"}
  /\ exam.values.startTime = now
  /\ Count(inflight, Submission) = 0
  /\ server.files = {}

WellFormedEmails == { <<"a", "@", "a", ".", "a", "a">> }

\* C4: a submit of the login form whose email is not a well-formed address or
\* whose password has fewer than 6 characters issues no request and leaves
\* the auth store unchanged.
LoginRejectsInvalid ==
  [][((LoginSubmit \/ LoginSubmitInvalid)
       /\ (login.email \notin WellFormedEmails \/ Len(login.password) < 6))
      => UNCHANGED <<inflight, token, user>>]_vars

ShortPasswordRejected ==
  /\ login.errors = {"password"}
  /\ login.email \in WellFormedEmails
  /\ Len(login.password) = 5
  /\ inflight = EmptyBag
  /\ token = NULL

\* C5: with a PDF attached the submit issues POST /upload alone, POST /exams
\* follows only the upload's success and carries the URL it returned, a
\* failed upload is followed by no POST /exams; without a PDF the submit
\* issues POST /exams alone with an empty resourcePdfUrl.
TwoStepSubmit ==
  /\ [](\A r \in InFlight({"upload"}) : Len(r.data.pdfFile) > 0 /\ r.url = "")
  /\ [](\A r \in InFlight({"exams"}) :
          IF Len(r.data.pdfFile) > 0
          THEN ExamBody(r).resourcePdfUrl \in server.files
          ELSE ExamBody(r).resourcePdfUrl = "")
  /\ [][ExamSubmit =>
          IF Len(exam.values.pdfFile) > 0
          THEN /\ Count(inflight', {"upload"}) = Count(inflight, {"upload"}) + 1
               /\ Count(inflight', {"exams"}) = Count(inflight, {"exams"})
          ELSE /\ Count(inflight', {"upload"}) = Count(inflight, {"upload"})
               /\ Count(inflight', {"exams"}) = Count(inflight, {"exams"}) + 1]_vars
  /\ [][\A r \in InFlight({"upload"}) :
          /\ UploadFailed(r) =>
               /\ Count(inflight', {"exams"}) = Count(inflight, {"exams"})
               /\ Count(inflight', {"upload"}) = Count(inflight, {"upload"}) - 1
          /\ \A url \in Urls :
               UploadDone(r, url) =>
                 /\ BagIn([r EXCEPT !.kind = "exams", !.url = url], inflight')
                 /\ Count(inflight', {"exams"}) = Count(inflight, {"exams"}) + 1]_vars

ExamPostedWithUploadedUrl ==
  \E r \in InFlight({"exams"}) :
    Len(r.data.pdfFile) > 0 /\ ExamBody(r).resourcePdfUrl \in Urls

\* C6: when POST /exams fails after POST /upload succeeded, the submission
\* issues no further request and the uploaded file stays on the server.
NoCompensation ==
  [][\A r \in InFlight({"exams"}) :
       (r.url # "" /\ ExamsFailed(r)) =>
         /\ inflight' = inflight (-) One(r)
         /\ server' = server
         /\ r.url \in server'.files]_vars

UploadOrphaned ==
  /\ route = "/create-exam"
  /\ alert = ExamFailed
  /\ server.files # {}
  /\ inflight = EmptyBag
  /\ ~exam.isSubmitting

\* C7 as stated: the failure of any request shows a modal alert, and the
\* request is not retried.
EveryFailureAlerts ==
  [][\A r \in BagToSet(inflight) :
       (\/ LoginFailed(r) \/ GetBatchesFailed(r) \/ CreateBatchFailed(r)
        \/ UploadFailed(r) \/ ExamsFailed(r))
         => alert' # NoAlert /\ inflight' = inflight (-) One(r)]_vars

\* C7 as amended: a failed login, upload or exam creation shows its fixed
\* alert; a failed GET /batches or POST /batches shows none and only reaches
\* the console; no failed request is retried.
FailuresAlertExceptBatches ==
  [][\A r \in BagToSet(inflight) :
       /\ LoginFailed(r) =>
            alert' = InvalidCredentials /\ inflight' = inflight (-) One(r)
       /\ (UploadFailed(r) \/ ExamsFailed(r)) =>
            alert' = ExamFailed /\ inflight' = inflight (-) One(r)
       /\ (GetBatchesFailed(r) \/ CreateBatchFailed(r)) =>
            /\ alert' = NoAlert /\ console' # NoLog
            /\ inflight' = inflight (-) One(r)]_vars

LoginFailureAlerted ==
  /\ alert = InvalidCredentials
  /\ route = "/login"
  /\ ~login.isSubmitting
  /\ inflight = EmptyBag

\* C8: the logout button clears the token and replaces the dashboard by
\* /login; with no token no protected screen is displayed, and the token
\* comes back only through a successful teacher login.
LogoutClosesScreens ==
  /\ [][Logout => token' = NULL /\ user' = NULL /\ route' = "/login"]_vars
  /\ [](token = NULL => route \notin ProtectedScreens)
  /\ [][(token = NULL /\ token' # NULL) =>
          \E r \in InFlight({"login"}), tok \in Tokens :
            LoginSucceeded(r, "TEACHER", tok)]_vars

LoggedOut ==
  token = NULL /\ route = "/login" /\ server.batches # {}

\* C9: the mounted exam form never has two submissions in progress: while
\* one of its requests is in flight isSubmitting is set and the submit button
\* disabled.
OneSubmissionPerForm ==
  /\ LiveCount(Submission) <= 1
  /\ exam.isSubmitting <=> LiveCount(Submission) = 1
  /\ exam.isSubmitting => ~SubmitOffered(exam)

OldAndNewFormSubmitting ==
  LiveCount(Submission) = 1 /\ Count(inflight, Submission) = 2

\* C10: the question list starts with one question, Add Question appends
\* one, a row is removed only from a list of more than one, so the list is
\* never empty and every question has four option slots.
QuestionListNeverEmpty ==
  /\ Len(exam.values.questions) = 1
  /\ [](/\ Len(exam.values.questions) >= 1
        /\ \A i \in 1..Len(exam.values.questions) :
             Len(exam.values.questions[i].options) = 4)
  /\ [][AppendQuestion =>
          /\ Len(exam'.values.questions) = Len(exam.values.questions) + 1
          /\ exam'.values.questions[Len(exam'.values.questions)] = defaultQuestion]_vars
  /\ [][\A i \in 1..MaxQuestions :
          RemoveQuestion(i) =>
            /\ Len(exam.values.questions) > 1
            /\ Len(exam'.values.questions) = Len(exam.values.questions) - 1]_vars

RowAddedAndFilled ==
  /\ Len(exam.values.questions) >= 2
  /\ exam.values.questions[1] = defaultQuestion
  /\ exam.values.questions[2] = FilledQuestion

\* C11: with every issued request answered, an exam submission ends with
\* isSubmitting false in one of two outcomes: the success alert on /dashboard
\* after POST /exams resolved, or the failure alert on the exam form with no
\* navigation; a submission step navigates only when POST /exams resolved.
SubmitSucceeded ==
  /\ alert = ExamCreated /\ route = "/dashboard"
  /\ ~exam.isSubmitting /\ Count(inflight, Submission) = 0

SubmitFailed ==
  /\ alert = ExamFailed /\ route = "/create-exam"
  /\ ~exam.isSubmitting /\ Count(inflight, Submission) = 0

SubmitFinishesAndReleases ==
  /\ exam.isSubmitting ~> (SubmitSucceeded \/ SubmitFailed)
  /\ [][\A r \in InFlight(Submission) :
          /\ ExamsDone(r) => SubmitSucceeded'
          /\ (UploadFailed(r) \/ ExamsFailed(r)) =>
               /\ SubmitFailed' /\ route' = route
               /\ SubmitOffered(exam')
          /\ \A url \in Urls :
               UploadDone(r, url) => route' = route /\ exam'.isSubmitting]_vars
  /\ [][route' # route => \E r \in InFlight({"exams"}) : ExamsDone(r)]_vars
  /\ [](~(SubmitSucceeded /\ SubmitFailed))

SubmissionEnded ==
  /\ SubmitSucceeded
  /\ server.files # {}

=============================================================================
